---- MODULE Spec2Model ----
(***************************************************************************)
(* pipeline_runner: the pipeline driver (PipelineRunner), the step         *)
(* lifecycle (StepRunner), the parallel group (ParallelStepRunner), the    *)
(* clone-settings cascade and the cache transfer engine (CacheManager).    *)
(*                                                                         *)
(* The program is a single thread of control; pc is its position.  Every   *)
(* call into a collaborator (container, services manager, artifact         *)
(* manager) either returns one of its possible values or raises.           *)
(***************************************************************************)
EXTENDS Integers, Sequences, FiniteSets, TLC

\* ------------------------------------------------------------------ bounds
MaxSteps == 2       \* top-level steps of a pipeline
MaxChildren == 2    \* children of a parallel step
MaxExit == 2        \* exit codes are 0..MaxExit
MaxCaches == 2      \* cache names listed on one step
MaxDepth == 2       \* clone depths are 1..MaxDepth (or unset)

\* --------------------------------------------------------- Python values
\* None, int, bool and tuple values, with Python's truth test.
None == [t |-> "none"]
PyInt(n) == [t |-> "int", i |-> n]
PyBool(b) == [t |-> "bool", b |-> b]
\* the pair (exit code, output bytes) a container command returns
Pair(code) == [t |-> "tuple", code |-> code, len |-> 2]

Truthy(v) ==
    CASE v.t = "none" -> FALSE
      [] v.t = "int" -> v.i # 0
      [] v.t = "bool" -> v.b
      [] v.t = "tuple" -> v.len > 0

ExitCodes == 0..MaxExit
StepNames == {"build", "test"}
CacheNames == {"docker", "pip", "node"}

SeqsUpTo(S, lo, hi) == UNION {[1..m -> S] : m \in lo..hi}

CacheLists == SeqsUpTo(CacheNames, 0, MaxCaches)

\* models.Step / models.ParallelStep: the shape of a runnable node of
\* pipeline.steps.  The fields of a simple step (name, caches, clone
\* settings) are drawn when the step is handed to its StepRunner.
SimpleStep == [kind |-> "step", steps |-> <<>>]
ParallelStep(n) == [kind |-> "parallel", steps |-> [c \in 1..n |-> SimpleStep]]
Nodes == {SimpleStep} \cup {ParallelStep(n) : n \in 1..MaxChildren}

\* models.CloneSettings: three tri-state fields
TriState == {None, PyBool(TRUE), PyBool(FALSE)}
DepthOpt == {None} \cup {PyInt(d) : d \in 1..MaxDepth}
CloneSettingsSet == [enabled : TriState, lfs : TriState, depth : DepthOpt]
\* CloneSettings.default(): fully concrete, depth unset (full history)
CloneSettingsDefault == [enabled |-> PyBool(TRUE), lfs |-> PyBool(TRUE), depth |-> None]
UnsetCloneSettings == [enabled |-> None, lfs |-> None, depth |-> None]
\* clone settings in which only the enabled field varies
EnabledOnly == {[UnsetCloneSettings EXCEPT !.enabled = e] : e \in TriState}
\* the value of a clone_out field whose method was not called
Unevaluated == [t |-> "unevaluated"]
NoCloneOut == [enabled |-> Unevaluated, lfs |-> Unevaluated, depth |-> Unevaluated]

\* the Step objects of the program specification
ProgramSteps ==
    [name : StepNames, caches : {<<>>, <<"pip">>}, clone : {UnsetCloneSettings},
     skipped : {FALSE}]
\* the Step objects of the step specification
LifecycleSteps ==
    [name : StepNames, caches : CacheLists, clone : EnabledOnly, skipped : {FALSE}]

VARIABLES
    \* inputs
    steps,              \* pipeline.steps
    selected_steps,     \* config.selected_steps
    cache_definitions,  \* definitions.caches (the defined names)
    def_clone,          \* definitions.clone_settings
    \* host state
    archives,           \* local cache store: name -> "absent" | "old" | "truncated" | "new"
    started,            \* how many services groups / containers are started and not stopped
    \* control
    pc, i, j,
    exc,                \* the exception in flight
    ret,                \* the value the last runner.run() returned
    return_code,        \* ParallelStepRunner.run's local
    pipeline_result,    \* what _execute_pipeline returned
    run_return,         \* what PipelineRunner.run returned
    \* identifiers
    uuid_next, step_uuid, runner_uuids,
    \* the running StepRunner
    cur,                \* self._step (name, caches, clone settings)
    services_manager, container_runner,   \* "None" | "set"
    exit_code, after_env,
    names, k,           \* CacheManager.upload/download loop
    \* observations
    results,            \* results of the top-level runners, in order
    child_results,      \* results of the children of the current parallel step
    log,                \* what the current step did, in order
    clone_out           \* the resolved clone settings of the current step

vars == <<steps, selected_steps, cache_definitions, def_clone, archives, started, pc,
          i, j,
          exc, ret, return_code, pipeline_result, run_return, uuid_next, step_uuid,
          runner_uuids, cur, services_manager, container_runner, exit_code,
          after_env, names, k, results, child_results, log, clone_out>>

inputVars == <<steps, selected_steps, cache_definitions, def_clone>>
driverVars == <<i, pipeline_result, run_return, results>>
parallelVars == <<j, return_code, child_results>>
idVars == <<uuid_next, step_uuid, runner_uuids>>
stepVars == <<cur, services_manager, container_runner, exit_code, after_env,
              names, k, log, clone_out>>

NoStep == [name |-> "", caches |-> <<>>, clone |-> UnsetCloneSettings, skipped |-> FALSE]
NoExc == [type |-> "none", msg |-> "", arg |-> ""]
Error(type, msg, arg) == [type |-> type, msg |-> msg, arg |-> arg]
\* an error raised inside a collaborator (container engine, services, artifacts)
CollaboratorError(op) == Error("CollaboratorError", op, "")
Event(op, arg, ok) == [op |-> op, arg |-> arg, ok |-> ok]
\* a call that returned an exit code
Returned(op, code) == [op |-> op, arg |-> "", ok |-> TRUE, code |-> code]

PipelineUuid == 0

\* nothing is started on the host
NoneStarted == [services |-> 0, container |-> 0]
\* a start call that returned leaves one more of that kind started
AfterStart(kind, ok) ==
    IF ok THEN [started EXCEPT ![kind] = @ + 1] ELSE started
\* a stop call that returned leaves one less started, when one was
AfterStop(kind, ok) ==
    IF ok /\ started[kind] > 0 THEN [started EXCEPT ![kind] = @ - 1] ELSE started

\* the rest of the state before anything ran
InitRest ==
    /\ started = NoneStarted
    /\ exc = NoExc
    /\ ret = None
    /\ return_code = None
    /\ pipeline_result = None
    /\ run_return = None
    /\ services_manager = "None" /\ container_runner = "None"
    /\ exit_code = None /\ after_env = None
    /\ names = <<>> /\ k = 0
    /\ results = <<>> /\ child_results = <<>>
    /\ log = <<>>
    /\ clone_out = NoCloneOut

\* ------------------------------------------------------------------- Init
Init ==
    /\ steps \in SeqsUpTo(Nodes, 0, MaxSteps)
    /\ selected_steps \in {{}, {"build"}}
    /\ cache_definitions = {"pip"}
    /\ def_clone \in {UnsetCloneSettings, [UnsetCloneSettings EXCEPT !.enabled = PyBool(FALSE)]}
    /\ archives = [c \in CacheNames |-> "absent"]
    /\ pc = "start"
    /\ i = 0 /\ j = 0
    /\ uuid_next = 1 /\ step_uuid = 0 /\ runner_uuids = <<>>
    /\ cur = NoStep
    /\ InitRest

\* ------------------------------------------------------ PipelineRunner
\* StepRunner.__init__: a fresh runner for one simple step, any Step of the
\* program specification
NewStepRunner(uuid, siblings) ==
    /\ cur' \in ProgramSteps
    /\ services_manager' = "None"
    /\ container_runner' = "None"
    /\ exit_code' = None /\ after_env' = None
    /\ names' = <<>> /\ k' = 0
    /\ log' = <<>>
    /\ clone_out' = NoCloneOut
    /\ runner_uuids' = Append(siblings, <<PipelineUuid, uuid>>)

\* StepRunnerFactory.get: the runner class for a node
RunnerClass(step) == IF step.kind = "parallel" THEN "ParallelStepRunner" ELSE "StepRunner"

\* PipelineRunner.run up to the call of _execute_pipeline: the env files and
\* the pipeline are loaded; a missing env file or pipeline raises ValueError.
Run ==
    /\ pc = "start"
    /\ \E env_ok, found \in BOOLEAN :
        IF ~env_ok
        THEN /\ exc' = Error("ValueError", "Invalid env file", "")
             /\ pc' = "raised" /\ i' = i
        ELSE IF ~found
        THEN /\ exc' = Error("ValueError", "Invalid pipeline", "")
             /\ pc' = "raised" /\ i' = i
        ELSE /\ pc' = "pipeline_loop" /\ i' = 1 /\ exc' = exc
    /\ UNCHANGED <<inputVars, archives, started, j, ret, return_code, pipeline_result, run_return,
                   idVars, stepVars, results, child_results>>

\* _execute_pipeline, the head of the loop: the next step gets a fresh
\* step uuid and a runner from the factory, or the loop ends and the method
\* falls off its end (returning None).
ExecutePipelineNext ==
    /\ pc = "pipeline_loop"
    /\ IF i > Len(steps)
       THEN /\ pipeline_result' = None
            /\ pc' = "pipeline_returned"
            /\ UNCHANGED <<idVars, stepVars, parallelVars>>
       ELSE /\ step_uuid' = uuid_next
            /\ uuid_next' = uuid_next + 1
            /\ IF RunnerClass(steps[i]) = "ParallelStepRunner"
               THEN /\ pc' = "parallel_start"
                    /\ runner_uuids' = <<>>
                    /\ UNCHANGED <<stepVars, parallelVars>>
               ELSE /\ pc' = "step_run"
                    /\ NewStepRunner(uuid_next, <<>>)
                    /\ UNCHANGED parallelVars
            /\ UNCHANGED pipeline_result
    /\ UNCHANGED <<inputVars, archives, started, i, exc, ret, run_return, results>>

\* a driver that stops only on exit code 1
StopsPipelineOnOne(rc) == rc = PyInt(1)

\* _execute_pipeline, `if exit_code:`
StopsPipeline(rc) == Truthy(rc)

\* _execute_pipeline after runner.run() returned: a truthy exit code ends
\* the loop and is returned.
ExecutePipelineCheck ==
    /\ pc = "pipeline_check"
    /\ results' = Append(results, ret)
    /\ IF StopsPipeline(ret)
       THEN /\ pipeline_result' = ret
            /\ pc' = "pipeline_returned"
            /\ i' = i
       ELSE /\ pc' = "pipeline_loop"
            /\ i' = i + 1
            /\ UNCHANGED pipeline_result
    /\ UNCHANGED <<inputVars, archives, started, exc, ret, run_return, parallelVars, idVars, stepVars>>

\* PipelineRunner.run after _execute_pipeline returned: the outcome is
\* logged; the method has no return statement.
RunFinish ==
    /\ pc = "pipeline_returned"
    /\ run_return' = None
    /\ pc' = "done"
    /\ UNCHANGED <<inputVars, archives, started, i, exc, ret, pipeline_result, results,
                   parallelVars, idVars, stepVars>>

\* -------------------------------------------------- ParallelStepRunner
\* ParallelStepRunner.run: return_code = 0
ParallelStart ==
    /\ pc = "parallel_start"
    /\ return_code' = PyInt(0)
    /\ j' = 1
    /\ child_results' = <<>>
    /\ pc' = "parallel_loop"
    /\ UNCHANGED <<inputVars, archives, started, driverVars, exc, ret, idVars, stepVars>>

\* the head of the loop over the children: every child runner is created
\* with the parallel step's own step uuid; after the last child the
\* method returns return_code.
ParallelNext ==
    /\ pc = "parallel_loop"
    /\ IF j > Len(steps[i].steps)
       THEN /\ ret' = return_code
            /\ pc' = "pipeline_check"
            /\ UNCHANGED <<stepVars, runner_uuids>>
       ELSE /\ NewStepRunner(step_uuid, runner_uuids)
            /\ pc' = "step_run"
            /\ ret' = ret
    /\ UNCHANGED <<inputVars, archives, started, driverVars, parallelVars, exc, uuid_next, step_uuid>>

\* a reduction that keeps the first non-zero exit code
ReduceKeepsFirst(old, rc) == IF Truthy(old) THEN old ELSE IF Truthy(rc) THEN rc ELSE old

\* ParallelStepRunner.run, `if rc: return_code = rc`
ReduceReturnCode(old, rc) == IF Truthy(rc) THEN rc ELSE old

\* after a child returned rc: a truthy rc replaces return_code
ParallelCheck ==
    /\ pc = "parallel_check"
    /\ child_results' = Append(child_results, ret)
    /\ return_code' = ReduceReturnCode(return_code, ret)
    /\ j' = j + 1
    /\ pc' = "parallel_loop"
    /\ UNCHANGED <<inputVars, archives, started, driverVars, exc, ret, idVars, stepVars>>

\* ---------------------------------------------------------- StepRunner
\* where runner.run() of the current simple step returns to
ReturnPc == IF steps[i].kind = "parallel" THEN "parallel_check" ELSE "pipeline_check"

\* a selection filter that is never applied
ShouldRunAlways(name) == TRUE

\* StepRunner._should_run
ShouldRun(name) == ~(selected_steps # {} /\ name \notin selected_steps)

\* the loop of _should_clone, _should_clone_lfs and _get_clone_depth: the
\* first value that is not None; None when the loop ends
\* the same loop with a truth test in place of `is not None`
RECURSIVE FirstTruthy(_)
FirstTruthy(vs) ==
    IF vs = <<>> THEN None
    ELSE IF Truthy(Head(vs)) THEN Head(vs)
    ELSE FirstTruthy(Tail(vs))

RECURSIVE FirstNotNone(_)
FirstNotNone(vs) ==
    IF vs = <<>> THEN None
    ELSE IF Head(vs) # None THEN Head(vs)
    ELSE FirstNotNone(Tail(vs))

ShouldClone(step_cs, defs_cs) ==
    FirstNotNone(<<step_cs.enabled, defs_cs.enabled, CloneSettingsDefault.enabled>>)
ShouldCloneLfs(step_cs, defs_cs) ==
    FirstNotNone(<<step_cs.lfs, defs_cs.lfs, CloneSettingsDefault.lfs>>)
GetCloneDepth(step_cs, defs_cs) ==
    FirstNotNone(<<step_cs.depth, defs_cs.depth, CloneSettingsDefault.depth>>)

\* ContainerRunner.run_command returns the pair (exit code, output)
RunCommandResults == {Pair(c) : c \in ExitCodes}

\* an exception that leaves run() without passing the finally block
RaiseSkipsFinally(e) ==
    /\ exc' = e
    /\ pc' = "step_exit"

\* an exception raised inside the try block of run(): control goes to the
\* finally block
Raise(e) ==
    /\ exc' = e
    /\ pc' = "release_services"

\* run(), the skip check: a step outside the selection returns None
StepRun ==
    /\ pc = "step_run"
    /\ IF ~ShouldRun(cur.name)
       THEN /\ cur' = [cur EXCEPT !.skipped = TRUE]
            /\ ret' = None
            /\ pc' = ReturnPc
       ELSE /\ cur' = cur
            /\ pc' = "start_services"
            /\ ret' = ret
    /\ UNCHANGED <<inputVars, archives, started, driverVars, parallelVars, idVars, exc,
                   services_manager, container_runner, exit_code, after_env, names, k,
                   log, clone_out>>

\* the services manager is built and the services are started
StartServices ==
    /\ pc = "start_services"
    /\ services_manager' = "set"
    /\ \E ok \in BOOLEAN :
        /\ log' = Append(log, Event("start_services", "", ok))
        /\ started' = AfterStart("services", ok)
        /\ IF ok THEN pc' = "start_container" /\ exc' = exc
                 ELSE Raise(CollaboratorError("start_services"))
    /\ UNCHANGED <<inputVars, archives, driverVars, parallelVars, idVars, ret, cur,
                   container_runner, exit_code, after_env, names, k, clone_out>>

\* the container runner is built and the container is started
StartContainer ==
    /\ pc = "start_container"
    /\ container_runner' = "set"
    /\ \E ok \in BOOLEAN :
        /\ log' = Append(log, Event("start_container", "", ok))
        /\ started' = AfterStart("container", ok)
        /\ IF ok THEN pc' = "clone" /\ exc' = exc
                 ELSE Raise(CollaboratorError("start"))
    /\ UNCHANGED <<inputVars, archives, driverVars, parallelVars, idVars, ret, cur,
                   services_manager, exit_code, after_env, names, k, clone_out>>

\* _build_setup, first call: _clone_repository.  The value run_command
\* returns is tested for truth as it is; the log keeps whether the command
\* itself ended with exit code 0.
CloneRepository ==
    /\ pc = "clone"
    /\ LET enabled == ShouldClone(cur.clone, def_clone)
           lfs == ShouldCloneLfs(cur.clone, def_clone)
           depth == GetCloneDepth(cur.clone, def_clone)
       IN IF ~Truthy(enabled)
          THEN /\ clone_out' = [NoCloneOut EXCEPT !.enabled = enabled]
               /\ pc' = "upload_artifacts"
               /\ UNCHANGED <<exc, log>>
          ELSE /\ clone_out' = [enabled |-> enabled, lfs |-> lfs, depth |-> depth]
               /\ \E r1, r2 \in RunCommandResults :
                    IF Truthy(r1)
                    THEN /\ log' = Append(log, Event("git_clone", "", r1.code = 0))
                         /\ Raise(Error("Exception", "Error cloning repository", ""))
                    ELSE IF Truthy(r2)
                    THEN /\ log' = log \o <<Event("git_clone", "", r1.code = 0),
                                            Event("git_reset", "", r2.code = 0)>>
                         /\ Raise(Error("Exception", "Error resetting to HEAD commit", ""))
                    ELSE /\ log' = log \o <<Event("git_clone", "", r1.code = 0),
                                            Event("git_reset", "", r2.code = 0)>>
                         /\ pc' = "upload_artifacts"
                         /\ exc' = exc
    /\ UNCHANGED <<inputVars, archives, started, driverVars, parallelVars, idVars, ret, cur,
                   services_manager, container_runner, exit_code, after_env, names, k>>

\* _build_setup, second call: _upload_artifacts
UploadArtifacts ==
    /\ pc = "upload_artifacts"
    /\ \E ok \in BOOLEAN :
        /\ log' = Append(log, Event("upload_artifacts", "", ok))
        /\ IF ok THEN pc' = "upload_caches" /\ exc' = exc
                 ELSE Raise(CollaboratorError("artifacts.upload"))
    /\ UNCHANGED <<inputVars, archives, started, driverVars, parallelVars, idVars, ret, cur,
                   services_manager, container_runner, exit_code, after_env, names, k,
                   clone_out>>

\* -------------------------------------------------------- CacheManager
\* self._ignored_caches
IgnoredCaches == {"docker"}

\* an ignore-set that is never consulted
ShouldIgnoreNever(cache_name) == FALSE

\* CacheManager._should_ignore
ShouldIgnore(cache_name) == cache_name \in IgnoredCaches

\* os.path.exists(local_cache_archive_path)
LocalArchiveExists(cache_name) == archives[cache_name] # "absent"

\* _get_remote_directory raises for a name that is not defined
IsDefined(cache_name) == cache_name \in cache_definitions

\* the operations that move cache data or touch the container or the store
TransferOps == {"run_command", "put_archive", "get_archive", "open_wb", "write"}

\* the loop of CacheManager.upload / download: on to the next name, or back
\* to the caller after the last one
NextCache(after) ==
    /\ k' = k + 1
    /\ pc' = IF k = Len(names) THEN after ELSE pc

\* _build_setup, third call: _upload_caches builds a CacheManager and calls
\* upload with the step's cache names
UploadCaches ==
    /\ pc = "upload_caches"
    /\ names' = cur.caches
    /\ k' = 1
    /\ pc' = IF cur.caches = <<>> THEN "run_script" ELSE "upload_cache"
    /\ UNCHANGED <<inputVars, archives, started, driverVars, parallelVars, idVars, exc, ret, cur,
                   services_manager, container_runner, exit_code, after_env, log,
                   clone_out>>

\* an upload that goes on whatever the prepare command returned
PrepareFailedNever(res) == FALSE

\* `res, output = run_command(...)`, `if res != 0:`
PrepareFailed(res) == res.code # 0

\* CacheManager._upload_cache for names[k]
UploadCache ==
    /\ pc = "upload_cache"
    /\ LET cache_name == names[k]
           called == Append(log, Event("upload_cache", cache_name, TRUE))
       IN IF ShouldIgnore(cache_name)
          THEN /\ log' = called
               /\ NextCache("run_script")
               /\ exc' = exc
          ELSE IF ~LocalArchiveExists(cache_name)
          THEN /\ log' = called
               /\ NextCache("run_script")
               /\ exc' = exc
          ELSE IF ~IsDefined(cache_name)
          THEN /\ log' = Append(called, Event("get_remote_directory", cache_name, FALSE))
               /\ Raise(Error("ValueError", "Invalid cache", cache_name))
               /\ k' = k
          ELSE \E res \in RunCommandResults, success \in BOOLEAN :
                 IF PrepareFailed(res)
                 THEN /\ log' = called \o <<Event("get_remote_directory", cache_name, TRUE),
                                            Event("run_command", cache_name, res.code = 0)>>
                      /\ Raise(Error("Exception", "Error uploading cache", cache_name))
                      /\ k' = k
                 ELSE IF ~success
                 THEN /\ log' = called \o <<Event("get_remote_directory", cache_name, TRUE),
                                            Event("run_command", cache_name, res.code = 0),
                                            Event("put_archive", cache_name, FALSE)>>
                      /\ Raise(Error("Exception", "Error uploading cache", cache_name))
                      /\ k' = k
                 ELSE /\ log' = called \o <<Event("get_remote_directory", cache_name, TRUE),
                                            Event("run_command", cache_name, res.code = 0),
                                            Event("put_archive", cache_name, TRUE)>>
                      /\ NextCache("run_script")
                      /\ exc' = exc
    /\ UNCHANGED <<inputVars, archives, started, driverVars, parallelVars, idVars, ret, cur,
                   services_manager, container_runner, exit_code, after_env, names,
                   clone_out>>

\* CacheManager._download_cache for names[k]: the local archive is opened
\* for writing (truncated) before the archive is fetched from the container
DownloadCache ==
    /\ pc = "download_cache"
    /\ LET cache_name == names[k]
           called == Append(log, Event("download_cache", cache_name, TRUE))
       IN IF ShouldIgnore(cache_name)
          THEN /\ log' = called
               /\ NextCache("download_artifacts")
               /\ UNCHANGED <<exc, archives>>
          ELSE IF ~IsDefined(cache_name)
          THEN /\ log' = Append(called, Event("get_remote_directory", cache_name, FALSE))
               /\ Raise(Error("ValueError", "Invalid cache", cache_name))
               /\ k' = k
               /\ UNCHANGED archives
          ELSE \E outcome \in {"get_archive_raises", "stream_raises", "complete"} :
                 CASE outcome = "get_archive_raises" ->
                        /\ log' = called \o <<Event("get_remote_directory", cache_name, TRUE),
                                              Event("open_wb", cache_name, TRUE),
                                              Event("get_archive", cache_name, FALSE)>>
                        /\ archives' = [archives EXCEPT ![cache_name] = "truncated"]
                        /\ Raise(CollaboratorError("get_archive"))
                        /\ k' = k
                   [] outcome = "stream_raises" ->
                        /\ log' = called \o <<Event("get_remote_directory", cache_name, TRUE),
                                              Event("open_wb", cache_name, TRUE),
                                              Event("get_archive", cache_name, TRUE),
                                              Event("write", cache_name, FALSE)>>
                        /\ archives' = [archives EXCEPT ![cache_name] = "truncated"]
                        /\ Raise(CollaboratorError("get_archive"))
                        /\ k' = k
                   [] outcome = "complete" ->
                        /\ log' = called \o <<Event("get_remote_directory", cache_name, TRUE),
                                              Event("open_wb", cache_name, TRUE),
                                              Event("get_archive", cache_name, TRUE),
                                              Event("write", cache_name, TRUE)>>
                        /\ archives' = [archives EXCEPT ![cache_name] = "new"]
                        /\ NextCache("download_artifacts")
                        /\ exc' = exc
    /\ UNCHANGED <<inputVars, started, driverVars, parallelVars, idVars, ret, cur,
                   services_manager, container_runner, exit_code, after_env, names,
                   clone_out>>

\* ------------------------------------------- StepRunner: execute, teardown
\* exit_code = run_script(script): any exit code, or the call raises
RunScript ==
    /\ pc = "run_script"
    /\ \/ \E c \in ExitCodes :
            /\ exit_code' = PyInt(c)
            /\ log' = Append(log, Returned("run_script", PyInt(c)))
            /\ pc' = "after_script"
            /\ exc' = exc
       \/ /\ log' = Append(log, Event("run_script", "", FALSE))
          /\ Raise(CollaboratorError("run_script"))
          /\ exit_code' = exit_code
    /\ UNCHANGED <<inputVars, archives, started, driverVars, parallelVars, idVars, ret, cur,
                   services_manager, container_runner, after_env, names, k, clone_out>>

\* a step whose exit code is replaced by the after-script's
AfterScriptOverrides(old, rc) == rc

\* the after-script's result is not assigned: exit_code stays the script's
KeepExitCode(old, rc) == old

\* run_script(after_script, env={"BITBUCKET_EXIT_CODE": exit_code}); its
\* result is dropped
RunAfterScript ==
    /\ pc = "after_script"
    /\ after_env' = exit_code
    /\ \/ \E c \in ExitCodes :
            /\ log' = Append(log, Returned("after_script", PyInt(c)))
            /\ exit_code' = KeepExitCode(exit_code, PyInt(c))
            /\ pc' = "download_caches"
            /\ exc' = exc
       \/ /\ log' = Append(log, Event("after_script", "", FALSE))
          /\ Raise(CollaboratorError("run_script"))
          /\ exit_code' = exit_code
    /\ UNCHANGED <<inputVars, archives, started, driverVars, parallelVars, idVars, ret, cur,
                   services_manager, container_runner, names, k, clone_out>>

\* a teardown that persists the caches whatever the exit code
PersistsCachesAlways(code) == TRUE

\* the exit codes for which _download_caches persists the caches
PersistsCaches(code) == code = PyInt(0)

\* _build_teardown, first call: _download_caches(exit_code)
DownloadCaches ==
    /\ pc = "download_caches"
    /\ IF PersistsCaches(exit_code)
       THEN /\ names' = cur.caches
            /\ k' = 1
            /\ pc' = IF cur.caches = <<>> THEN "download_artifacts" ELSE "download_cache"
       ELSE /\ pc' = "download_artifacts"
            /\ UNCHANGED <<names, k>>
    /\ UNCHANGED <<inputVars, archives, started, driverVars, parallelVars, idVars, exc, ret, cur,
                   services_manager, container_runner, exit_code, after_env, log,
                   clone_out>>

\* _build_teardown, second and third call: _download_artifacts, and
\* _stop_services, which does nothing
DownloadArtifacts ==
    /\ pc = "download_artifacts"
    /\ \E ok \in BOOLEAN :
        /\ log' = Append(log, Event("download_artifacts", "", ok))
        /\ IF ok THEN pc' = "release_services" /\ exc' = exc
                 ELSE Raise(CollaboratorError("artifacts.download"))
    /\ UNCHANGED <<inputVars, archives, started, driverVars, parallelVars, idVars, ret, cur,
                   services_manager, container_runner, exit_code, after_env, names, k,
                   clone_out>>

\* ------------------------------------------------ StepRunner: finally
\* finally, first statement: the services are stopped when the services
\* manager was built.  An exception of this call leaves the finally block.
ReleaseServices ==
    /\ pc = "release_services"
    /\ IF services_manager # "None"
       THEN \E ok \in BOOLEAN :
              /\ log' = Append(log, Event("stop_services", "", ok))
              /\ started' = AfterStop("services", ok)
              /\ IF ok
                 THEN pc' = "release_container" /\ exc' = exc
                 ELSE pc' = "step_exit" /\ exc' = CollaboratorError("stop_services")
       ELSE /\ pc' = "release_container"
            /\ UNCHANGED <<log, exc, started>>
    /\ UNCHANGED <<inputVars, archives, driverVars, parallelVars, idVars, ret, cur,
                   services_manager, container_runner, exit_code, after_env, names, k,
                   clone_out>>

\* finally, second statement: the container is stopped when the container
\* runner was built
ReleaseContainer ==
    /\ pc = "release_container"
    /\ IF container_runner # "None"
       THEN \E ok \in BOOLEAN :
              /\ log' = Append(log, Event("stop_container", "", ok))
              /\ started' = AfterStop("container", ok)
              /\ exc' = IF ok THEN exc ELSE CollaboratorError("stop")
       ELSE UNCHANGED <<log, exc, started>>
    /\ pc' = "step_exit"
    /\ UNCHANGED <<inputVars, archives, driverVars, parallelVars, idVars, ret, cur,
                   services_manager, container_runner, exit_code, after_env, names, k,
                   clone_out>>

\* a run() that swallows every exception
PropagatesNever(e) == FALSE

\* no except clause: whatever exception is in flight after the finally
\* block leaves run()
Propagates(e) == e # NoExc

\* run() ends: an exception in flight leaves run() and, uncaught by
\* ParallelStepRunner.run, _execute_pipeline and PipelineRunner.run, the
\* program; otherwise exit_code is returned to the caller
StepExit ==
    /\ pc = "step_exit"
    /\ IF Propagates(exc)
       THEN pc' = "raised" /\ ret' = ret
       ELSE pc' = ReturnPc /\ ret' = exit_code
    /\ UNCHANGED <<inputVars, archives, started, driverVars, parallelVars, idVars, exc, stepVars>>

\* --------------------------------------------------------------- Spec
Next ==
    \/ Run
    \/ ExecutePipelineNext
    \/ ExecutePipelineCheck
    \/ RunFinish
    \/ ParallelStart
    \/ ParallelNext
    \/ ParallelCheck
    \/ StepRun
    \/ StartServices
    \/ StartContainer
    \/ CloneRepository
    \/ UploadArtifacts
    \/ UploadCaches
    \/ UploadCache
    \/ RunScript
    \/ RunAfterScript
    \/ DownloadCaches
    \/ DownloadCache
    \/ DownloadArtifacts
    \/ ReleaseServices
    \/ ReleaseContainer
    \/ StepExit

Spec == Init /\ [][Next]_vars

\* ----------------------------------------------------------- SpecStep
\* One StepRunner from its construction to the end of run(): the runner of
\* the only step of a pipeline, for every Step, every set of cache
\* definitions and every local cache store.
InitStep ==
    /\ steps = <<SimpleStep>>
    /\ selected_steps = {"build"}
    /\ cache_definitions \in SUBSET CacheNames
    /\ def_clone \in EnabledOnly
    /\ archives \in [CacheNames -> {"absent", "old"}]
    /\ pc = "step_run"
    /\ i = 1 /\ j = 0
    /\ uuid_next = 2 /\ step_uuid = 1 /\ runner_uuids = <<<<PipelineUuid, 1>>>>
    /\ cur \in LifecycleSteps
    /\ InitRest

NextStep ==
    \/ StepRun
    \/ StartServices
    \/ StartContainer
    \/ CloneRepository
    \/ UploadArtifacts
    \/ UploadCaches
    \/ UploadCache
    \/ RunScript
    \/ RunAfterScript
    \/ DownloadCaches
    \/ DownloadCache
    \/ DownloadArtifacts
    \/ ReleaseServices
    \/ ReleaseContainer
    \/ StepExit

SpecStep == InitStep /\ [][NextStep]_vars

\* ---------------------------------------------------------- SpecClone
\* The three resolver methods of a StepRunner, applied to every pair of
\* step-level and pipeline-level clone settings.
InitClone ==
    /\ steps = <<SimpleStep>>
    /\ selected_steps = {}
    /\ cache_definitions = {}
    /\ def_clone \in CloneSettingsSet
    /\ archives = [c \in CacheNames |-> "absent"]
    /\ pc = "clone_settings"
    /\ i = 1 /\ j = 0
    /\ uuid_next = 2 /\ step_uuid = 1 /\ runner_uuids = <<<<PipelineUuid, 1>>>>
    /\ cur \in [name : {"build"}, caches : {<<>>}, clone : CloneSettingsSet, skipped : {FALSE}]
    /\ InitRest

\* self._should_clone()
CallShouldClone ==
    /\ pc = "clone_settings"
    /\ clone_out.enabled = Unevaluated
    /\ clone_out' = [clone_out EXCEPT !.enabled = ShouldClone(cur.clone, def_clone)]
    /\ UNCHANGED <<inputVars, archives, started, pc, driverVars, parallelVars, idVars, exc, ret,
                   cur, services_manager, container_runner, exit_code, after_env, names,
                   k, log>>

\* self._should_clone_lfs()
CallShouldCloneLfs ==
    /\ pc = "clone_settings"
    /\ clone_out.lfs = Unevaluated
    /\ clone_out' = [clone_out EXCEPT !.lfs = ShouldCloneLfs(cur.clone, def_clone)]
    /\ UNCHANGED <<inputVars, archives, started, pc, driverVars, parallelVars, idVars, exc, ret,
                   cur, services_manager, container_runner, exit_code, after_env, names,
                   k, log>>

\* self._get_clone_depth()
CallGetCloneDepth ==
    /\ pc = "clone_settings"
    /\ clone_out.depth = Unevaluated
    /\ clone_out' = [clone_out EXCEPT !.depth = GetCloneDepth(cur.clone, def_clone)]
    /\ UNCHANGED <<inputVars, archives, started, pc, driverVars, parallelVars, idVars, exc, ret,
                   cur, services_manager, container_runner, exit_code, after_env, names,
                   k, log>>

NextClone ==
    \/ CallShouldClone
    \/ CallShouldCloneLfs
    \/ CallGetCloneDepth

SpecClone == InitClone /\ [][NextClone]_vars

\* ------------------------------------------------------- observations
\* how often the current step called an operation, and how the calls ended
Count(op) == Cardinality({n \in 1..Len(log) : log[n].op = op})
Succeeded(op) == \E n \in 1..Len(log) : log[n].op = op /\ log[n].ok
Failed(op) == \E n \in 1..Len(log) : log[n].op = op /\ ~log[n].ok
\* the arguments of the calls of op, in order
ArgsOf(op) ==
    LET calls == SelectSeq(log, LAMBDA e : e.op = op)
    IN [n \in 1..Len(calls) |-> calls[n].arg]
IsPrefix(a, b) == Len(a) <= Len(b) /\ a = SubSeq(b, 1, Len(a))
\* the last truthy value of a sequence of exit codes, 0 when there is none
LastNonZero(rs) ==
    IF \E n \in DOMAIN rs : Truthy(rs[n])
    THEN rs[CHOOSE n \in DOMAIN rs :
                Truthy(rs[n]) /\ \A m \in DOMAIN rs : m > n => ~Truthy(rs[m])]
    ELSE PyInt(0)
\* run() of the current step is over: it returned or its exception left it
StepFinished == pc \in {"step_exit", "pipeline_check", "parallel_check", "raised"}
\* the pcs at which a simple step is running
StepPcs ==
    {"step_run", "start_services", "start_container", "clone", "upload_artifacts",
     "upload_caches", "upload_cache", "run_script", "after_script", "download_caches",
     "download_cache", "download_artifacts", "release_services", "release_container",
     "step_exit"}

\* ---------------------------------------------------------------- C1
\* C1: the driver runs the top-level steps in declaration order; the first
\* step that returns a non-zero exit code is the last one run, and that
\* exit code is what _execute_pipeline returns.
C1_FirstFailureWins ==
    /\ Len(results) <= Len(steps)
    /\ (pc \in StepPcs \cup {"parallel_start", "parallel_loop", "parallel_check"}) =>
            Len(results) = i - 1
    /\ \A n \in 1..Len(results) :
            Truthy(results[n]) =>
                /\ n = Len(results)
                /\ i = n
                /\ pc \in {"pipeline_returned", "done"}
                /\ pipeline_result = results[n]

\* a step failed with exit code 2, a later step exists and was never run
C1_Witness ==
    /\ pc = "done"
    /\ Len(steps) = 2
    /\ results = <<PyInt(2)>>
    /\ pipeline_result = PyInt(2)

\* ---------------------------------------------------------------- C2
\* C2: in a step that is not skipped, whatever stage raised, the services
\* and the container that were started are stopped exactly once by the time
\* run() returns or its exception leaves it, when no stop call fails; no
\* stop is ever called twice.
C2_GuaranteedRelease ==
    /\ Count("stop_services") <= 1
    /\ Count("stop_container") <= 1
    /\ (StepFinished /\ ~cur.skipped /\ ~Failed("stop_services") /\ ~Failed("stop_container")) =>
            /\ Succeeded("start_services") => Count("stop_services") = 1
            /\ Succeeded("start_container") => Count("stop_container") = 1

\* the script raised after the services and the container were started, and
\* both were stopped once before the error left run()
C2_Witness ==
    /\ pc = "raised"
    /\ exc = CollaboratorError("run_script")
    /\ Succeeded("start_services") /\ Succeeded("start_container")
    /\ Count("stop_services") = 1 /\ Count("stop_container") = 1

\* ---------------------------------------------------------------- C3
\* C3: when the services and the container were both started, the release
\* stage attempts the service stop and the container stop exactly once
\* each, also when one of the two stop calls fails.
C3_ReleaseIndependence ==
    (StepFinished /\ Succeeded("start_services") /\ Succeeded("start_container")) =>
        /\ Count("stop_services") = 1
        /\ Count("stop_container") = 1

\* ---------------------------------------------------------------- C4
\* C4: ParallelStepRunner.run runs its children one after the other in
\* declared order, a non-zero exit code of a child included; when it returns,
\* every child has run and the result is the last non-zero exit code of the
\* children, 0 when there is none.
C4_ParallelReduction ==
    /\ (pc = "parallel_loop") =>
            /\ j = Len(child_results) + 1
            /\ return_code = LastNonZero(child_results)
    /\ (pc = "pipeline_check" /\ steps[i].kind = "parallel") =>
            /\ Len(child_results) = Len(steps[i].steps)
            /\ ret = LastNonZero(child_results)

\* the first child failed, the second child still ran and returned 0, and
\* the parallel step returned the first child's exit code
C4_Witness ==
    /\ pc = "pipeline_check"
    /\ steps[i].kind = "parallel"
    /\ child_results = <<PyInt(2), PyInt(0)>>
    /\ ret = PyInt(2)

\* ---------------------------------------------------------------- C5
\* the cache names for which _download_cache was called, in order
Downloaded == ArgsOf("download_cache")
\* _build_teardown was called and its cache persist part is over
CachePersistOver ==
    /\ Succeeded("after_script")
    /\ pc \notin {"download_caches", "download_cache"}
\* a call of _download_cache for the last name of Downloaded raised
DownloadRaised ==
    /\ Downloaded # <<>>
    /\ \E n \in 1..Len(log) :
        /\ log[n].op \in {"get_remote_directory", "get_archive", "write"}
        /\ log[n].arg = Downloaded[Len(Downloaded)]
        /\ ~log[n].ok

\* C5, as stated: once the cache persist part of the teardown is over,
\* _download_cache was called for every cache name of the step when the
\* exit code is 0, and for none otherwise.
C5_PersistAllOrNothing ==
    CachePersistOver =>
        Downloaded = (IF exit_code = PyInt(0) THEN cur.caches ELSE <<>>)

\* C5, amended: with a non-zero exit code _download_cache is called for no
\* cache; with exit code 0 it is called for the step's cache names in list
\* order, for all of them unless one of the calls raises, which ends the
\* loop at that name.
C5_PersistOnSuccessOnly ==
    /\ exit_code # PyInt(0) => Downloaded = <<>>
    /\ IsPrefix(Downloaded, cur.caches)
    /\ (CachePersistOver /\ exit_code = PyInt(0)) =>
            \/ Downloaded = cur.caches
            \/ DownloadRaised

\* exit code 0 and two caches: both were downloaded
C5_Witness ==
    /\ pc = "download_artifacts"
    /\ exit_code = PyInt(0)
    /\ cur.caches = <<"pip", "node">>
    /\ Downloaded = <<"pip", "node">>
    /\ archives["pip"] = "new" /\ archives["node"] = "new"

\* ---------------------------------------------------------------- C6
\* C6: every call of _upload_cache or _download_cache for a name that is
\* neither defined nor ignored raises the configuration error of
\* _get_remote_directory as its first effect, before any transfer, whatever
\* the local cache store holds.
C6_UnknownCacheFatal ==
    \A n \in 1..Len(log) :
        (/\ log[n].op \in {"upload_cache", "download_cache"}
         /\ log[n].arg \notin cache_definitions \cup IgnoredCaches) =>
            /\ n < Len(log)
            /\ log[n + 1] = Event("get_remote_directory", log[n].arg, FALSE)

\* ---------------------------------------------------------------- C7
\* C7: a call of _upload_cache or _download_cache for an ignored name does
\* nothing: no remote directory lookup, no container command, no archive
\* transfer, no local file write, and no exception, defined or not.
C7_IgnoreSet ==
    \A n \in 1..Len(log) :
        log[n].arg \in IgnoredCaches =>
            /\ log[n].op \in {"upload_cache", "download_cache"}
            /\ n = Len(log) => (exc = NoExc /\ pc # "release_services")

\* an ignored cache that is not defined and has a local archive was
\* downloaded without an error
C7_Witness ==
    /\ log # <<>>
    /\ log[Len(log)] = Event("download_cache", "docker", TRUE)
    /\ "docker" \notin cache_definitions
    /\ archives["docker"] = "old"
    /\ exc = NoExc

\* ---------------------------------------------------------------- C8
\* the run is scoped and the current step is outside the selection
NotSelected == cur # NoStep /\ selected_steps # {} /\ cur.name \notin selected_steps

\* C8: a simple step outside a non-empty selection does nothing and
\* returns None; a None result never ends the driver's loop and never
\* changes the return code of a parallel step.
C8_SkipSelection ==
    /\ (NotSelected /\ pc # "step_run") =>
            /\ log = <<>>
            /\ services_manager = "None" /\ container_runner = "None"
            /\ exit_code = None
            /\ pc = "parallel_check" => ret = None
            /\ (pc = "pipeline_check" /\ steps[i].kind = "step") => ret = None
    /\ \A n \in 1..Len(results) : results[n] = None => i > n
    /\ (pc = "parallel_loop") =>
            return_code = LastNonZero(SelectSeq(child_results, LAMBDA r : r # None))

\* the second child of a parallel step was skipped after the first one
\* failed: the return code is still the first child's
C8_Witness ==
    /\ pc = "parallel_loop"
    /\ selected_steps = {"build"}
    /\ cur.name = "test"
    /\ child_results = <<PyInt(1), None>>
    /\ return_code = PyInt(1)

\* ---------------------------------------------------------------- C9
\* the first of the three levels of field f that is set, None when none is
Cascade(f) ==
    LET levels == <<cur.clone[f], def_clone[f], CloneSettingsDefault[f]>>
    IN IF \A n \in 1..3 : levels[n] = None
       THEN None
       ELSE levels[CHOOSE n \in 1..3 :
                        levels[n] # None /\ \A m \in 1..(n - 1) : levels[m] = None]

\* C9: each of enabled, lfs and depth resolves to the first set value in
\* the order step, pipeline, system default; a false at step level wins over
\* a true at pipeline level; a depth unset at every level resolves to unset.
C9_CloneCascade ==
    /\ \A f \in {"enabled", "lfs", "depth"} :
            clone_out[f] # Unevaluated => clone_out[f] = Cascade(f)
    /\ (/\ clone_out.enabled # Unevaluated
        /\ cur.clone.enabled = PyBool(FALSE)
        /\ def_clone.enabled = PyBool(TRUE)) => clone_out.enabled = PyBool(FALSE)
    /\ (/\ clone_out.depth # Unevaluated
        /\ cur.clone.depth = None
        /\ def_clone.depth = None) => clone_out.depth = None

\* step-level false over pipeline-level true, the depth of the pipeline
\* level used, lfs from the system default
C9_Witness ==
    /\ cur.clone = [enabled |-> PyBool(FALSE), lfs |-> None, depth |-> None]
    /\ def_clone = [enabled |-> PyBool(TRUE), lfs |-> None, depth |-> PyInt(2)]
    /\ clone_out = [enabled |-> PyBool(FALSE), lfs |-> PyBool(TRUE), depth |-> PyInt(2)]

\* --------------------------------------------------------------- C10
\* C10: PipelineRunner.run returns the exit status of the pipeline: the
\* first non-zero exit code when a step failed, and 0 only when none did.
C10_RunStatus ==
    (pc = "done") =>
        /\ (\E n \in 1..Len(results) : Truthy(results[n])) =>
                run_return = results[CHOOSE n \in 1..Len(results) :
                                        Truthy(results[n])
                                        /\ \A m \in 1..(n - 1) : ~Truthy(results[m])]
        /\ run_return = PyInt(0) => \A n \in 1..Len(results) : ~Truthy(results[n])

\* --------------------------------------------------------------- C11
\* the exit code the call of op (the script or the after-script) returned
CodeOf(op) == log[CHOOSE n \in 1..Len(log) : log[n].op = op /\ log[n].ok].code
\* the operations of _build_teardown
TeardownOps == {"download_cache", "download_artifacts"}

\* C11: once the script returned an exit code the after-script is run
\* exactly once, right after the script and before any teardown operation,
\* with BITBUCKET_EXIT_CODE set to the script's exit code; the caches are
\* persisted only when the script's exit code is 0, and run() returns the
\* script's exit code, whatever exit code the after-script returned.
C11_AfterScript ==
    /\ Count("after_script") <= 1
    /\ (Succeeded("run_script") /\ pc # "after_script") => Count("after_script") = 1
    /\ \A n \in 1..Len(log) :
            /\ log[n].op = "after_script" =>
                    /\ n > 1
                    /\ log[n - 1] = Returned("run_script", CodeOf("run_script"))
                    /\ after_env = CodeOf("run_script")
            /\ log[n].op \in TeardownOps =>
                    \E m \in 1..(n - 1) : log[m].op = "after_script" /\ log[m].ok
    /\ Succeeded("after_script") =>
            /\ exit_code = CodeOf("run_script")
            /\ Downloaded # <<>> => CodeOf("run_script") = PyInt(0)
            /\ pc = "pipeline_check" => ret = CodeOf("run_script")

\* the script returned 0, the after-script was given 0 and returned 2: the
\* caches were persisted and run() returned 0
C11_Witness ==
    /\ pc = "pipeline_check"
    /\ Succeeded("run_script") /\ Succeeded("after_script")
    /\ CodeOf("run_script") = PyInt(0)
    /\ after_env = PyInt(0)
    /\ CodeOf("after_script") = PyInt(2)
    /\ Downloaded = <<"pip">>
    /\ ret = PyInt(0)

\* --------------------------------------------------------------- C12
\* the try block of run() is over: the finally block was entered
TryBlockOver == pc \in {"release_services", "release_container"} \/ StepFinished

\* C12: in every step execution whose script returned an exit code and
\* whose teardown was entered, the artifact download is attempted before
\* the step is released, also when the cache persist of that teardown
\* failed.
C12_ArtifactPersistAlways ==
    (Succeeded("run_script") /\ Succeeded("after_script") /\ TryBlockOver) =>
        /\ Count("download_artifacts") = 1
        /\ \A n, m \in 1..Len(log) :
                (/\ log[n].op = "download_artifacts"
                 /\ log[m].op \in {"stop_services", "stop_container"}) => n < m

\* --------------------------------------------------------------- C13
\* the errors of a step that the error taxonomy calls fatal: a checkout
\* failure, a cache transfer failure, a container or service start failure
FatalStepError(e) ==
    \/ e.msg \in {"Error cloning repository", "Error resetting to HEAD commit"}
    \/ e.msg \in {"Error uploading cache", "Invalid cache"}
    \/ e = CollaboratorError("get_archive")
    \/ e \in {CollaboratorError("start_services"), CollaboratorError("start")}

\* C13: a fatal error raised inside a step never leaves the pipeline driver
\* or the parallel executor as an uncaught exception; after the step's
\* release it ends the iteration as a non-zero result of the step.
C13_FatalErrorConversion ==
    /\ pc = "raised" => ~FatalStepError(exc)
    /\ (FatalStepError(exc) /\ pc \in {"pipeline_check", "parallel_check"}) => Truthy(ret)

\* --------------------------------------------------------------- C14
\* the pcs between the creation of a runner and its Acquire stage, and
\* those of the driver and the parallel executor between two runners
BetweenLifecycles ==
    {"start", "pipeline_loop", "pipeline_check", "pipeline_returned", "done",
     "parallel_start", "parallel_loop", "parallel_check", "step_run", "start_services"}

\* C14: at every moment at most one services group and one container are
\* started, and whenever a top-level step or a parallel child is about to
\* start its Acquire stage, or the driver or the parallel executor is
\* between two runners, nothing is started: the previous step or child has
\* completed its Release stage.
C14_NoOverlap ==
    /\ started.services <= 1
    /\ started.container <= 1
    /\ pc \in BetweenLifecycles => started = NoneStarted

\* the second child of a parallel step has its services and its container
\* started after the first child ran its whole lifecycle and returned
C14_Witness ==
    /\ pc = "clone"
    /\ steps[i].kind = "parallel"
    /\ Len(child_results) = 1
    /\ child_results[1] # None
    /\ started = [services |-> 1, container |-> 1]

\* --------------------------------------------------------------- C15
\* C15: the runners created for the children of one parallel step all
\* carry the pipeline uuid, and no two of them carry the same step uuid.
C15_PerChildIdentity ==
    \A a, b \in 1..Len(runner_uuids) :
        /\ runner_uuids[a][1] = PipelineUuid
        /\ a # b => runner_uuids[a][2] # runner_uuids[b][2]

\* --------------------------------------------------------------- C16
\* the clone command or the reset command of _clone_repository failed
CheckoutFailed == Failed("git_clone") \/ Failed("git_reset")
\* the operations of _build_setup after the checkout, and the script
AfterCheckoutOps == {"upload_artifacts", "upload_cache", "run_script", "after_script"}

\* C16: a failed clone or reset command raises the checkout error, nothing
\* of the setup after the checkout and no script runs, and by the time the
\* error leaves run() the step has run its teardown (the artifact persist
\* is attempted) and its release (services and container stopped, when no
\* stop call fails).
C16_CheckoutError ==
    CheckoutFailed =>
        /\ exc # NoExc
        /\ \A n \in 1..Len(log) : log[n].op \notin AfterCheckoutOps
        /\ (StepFinished /\ ~Failed("stop_services") /\ ~Failed("stop_container")) =>
                /\ Count("download_artifacts") = 1
                /\ Count("stop_services") = 1
                /\ Count("stop_container") = 1

\* --------------------------------------------------------------- C17
\* C17: the release stops only what was started: after a failed start of
\* the services no container stop is attempted; after a failed start of the
\* container no container stop is attempted either, and the services, which
\* were started, are still stopped.
C17_PartialAcquire ==
    /\ Failed("start_services") => Count("stop_container") = 0
    /\ Failed("start_container") =>
            /\ Count("stop_container") = 0
            /\ StepFinished => Count("stop_services") = 1

\* --------------------------------------------------------------- C18
\* the operations of the release stage
ReleaseOps == {"stop_services", "stop_container"}
\* the call at position n of the log is a step of an upload that failed
UploadFailedAt(n) ==
    /\ log[n].op \in {"run_command", "put_archive"}
    /\ ~log[n].ok

\* C18: upload handles the names in list order; for a defined cache with a
\* local archive the prepare command runs first and the archive is streamed
\* only after it returned 0; a non-zero prepare result or an unsuccessful
\* stream raises "Error uploading cache" naming that cache, with no stream
\* after a failed prepare; after the error no later cache is processed and
\* nothing is done to the caches uploaded before: the release is all that
\* follows.
C18_UploadProtocol ==
    /\ IsPrefix(ArgsOf("upload_cache"), cur.caches)
    /\ \A n \in 1..Len(log) :
        /\ (/\ log[n].op = "upload_cache"
            /\ ~ShouldIgnore(log[n].arg)
            /\ IsDefined(log[n].arg)
            /\ archives[log[n].arg] = "old") =>
                /\ n + 2 <= Len(log)
                /\ log[n + 1] = Event("get_remote_directory", log[n].arg, TRUE)
                /\ log[n + 2].op = "run_command" /\ log[n + 2].arg = log[n].arg
                /\ log[n + 2].ok =>
                        /\ n + 3 <= Len(log)
                        /\ log[n + 3].op = "put_archive" /\ log[n + 3].arg = log[n].arg
        /\ log[n].op = "put_archive" =>
                log[n - 1] = Event("run_command", log[n].arg, TRUE)
        /\ UploadFailedAt(n) =>
                /\ \A m \in (n + 1)..Len(log) : log[m].op \in ReleaseOps
                /\ n = Len(log) =>
                        /\ exc = Error("Exception", "Error uploading cache", log[n].arg)
                        /\ pc = "release_services"

\* the first cache of the list was uploaded, the prepare command of the
\* second one failed: the error names the second cache, its archive was not
\* streamed, and the first upload stays as it is
C18_Witness ==
    /\ cur.caches = <<"pip", "node">>
    /\ Len(log) >= 4
    /\ exc = Error("Exception", "Error uploading cache", "node")
    /\ log[Len(log)] = Event("run_command", "node", FALSE)
    /\ Event("put_archive", "pip", TRUE) \in {log[n] : n \in 1..Len(log)}
    /\ Count("put_archive") = 1

\* --------------------------------------------------------------- C19
\* the local store held an archive of the cache when the step began: its
\* upload passed the os.path.exists test and went on to the lookup
HadArchive(c) ==
    \E n \in 1..(Len(log) - 1) :
        /\ log[n] = Event("upload_cache", c, TRUE)
        /\ log[n + 1].op = "get_remote_directory"
\* a download of the cache failed while fetching or streaming the archive
PersistInterrupted(c) ==
    \E n \in 1..Len(log) :
        /\ log[n].op \in {"get_archive", "write"}
        /\ log[n].arg = c
        /\ ~log[n].ok

\* C19: when the download of a cache fails while the archive is fetched or
\* streamed out of the container, the local archive stored before is left
\* as it was; a local archive is replaced only by a completely transferred
\* one.
C19_InterruptedPersist ==
    \A c \in CacheNames :
        /\ (HadArchive(c) /\ PersistInterrupted(c)) => archives[c] \in {"old", "new"}
        /\ archives[c] = "new" => Event("write", c, TRUE) \in {log[n] : n \in 1..Len(log)}

\* --------------------------------------------------------------- C20
\* the messages of the two checkout errors
CheckoutErrors == {"Error cloning repository", "Error resetting to HEAD commit"}

\* C20: in a step whose clone is enabled, a clone command that returns the
\* pair (0, output) is followed by the reset command, and when the reset
\* command returns exit code 0 too, no checkout error is raised and the
\* step goes on to the artifact upload.
C20_CheckoutProceeds ==
    /\ Succeeded("git_clone") => Count("git_reset") = 1
    /\ (Succeeded("git_clone") /\ Succeeded("git_reset")) =>
            /\ exc.msg \notin CheckoutErrors
            /\ log[Len(log)].op = "git_reset" => pc = "upload_artifacts"

====
